---------------------------- MODULE Spec2Model ----------------------------
(***************************************************************************)
(* A model of server.js: the PDF signing service.                          *)
(*                                                                         *)
(*   - the blob location codec: storePdfInBucket builds a location,        *)
(*     downloadPdfFromGcs parses one, checks its bucket and downloads;     *)
(*   - addSignatureToPage, which draws one signature block on a page;      *)
(*   - the request handlers POST /api/sign and POST /api/pdf-config, cut   *)
(*     at their await points, and loadInitialPdfStore;                     *)
(*   - POST /api/pdf-upload and savePdfStore, with several uploads in      *)
(*     flight next to the start-up load of pdfStore.json.                  *)
(*                                                                         *)
(* A JavaScript string is a sequence of one-character strings, so that the *)
(* regular expressions, startsWith and includes are computed character by  *)
(* character.                                                              *)
(***************************************************************************)
EXTENDS Integers, Sequences, FiniteSets, TLC

VARIABLES
    BUCKET_NAME,    \* process.env.GCP_BUCKET_NAME, fixed at start-up
    MAKE_PUBLIC,    \* process.env.GCS_MAKE_PUBLIC === 'true'
    stored,         \* codec: the last storePdfInBucket call and what it returned
    dl,             \* codec: the last downloadPdfFromGcs call and how it ended
    pdfStore,       \* the in-memory document store (line 248)
    storeFile,      \* pdfStore.json on disk
    loaded,         \* whether loadInitialPdfStore has run
    load,           \* loadInitialPdfStore in flight: the call it awaits
    up,             \* the /api/pdf-upload requests: their place and locals
    req,            \* the request in flight: its handler, its place, its body
    resp,           \* the response sent to its caller
    drawn,          \* the draw operations of each block's addSignatureToPage
    composed,       \* how each block's addSignatureToPage ended
    fx,             \* the calls the request has made so far
    webhook         \* the webhook fetch of the request

vars ==
    <<BUCKET_NAME, MAKE_PUBLIC, stored, dl, pdfStore, storeFile, loaded, load,
      up, req, resp, drawn, composed, fx, webhook>>

---------------------------------------------------------------------------
(* Strings *)

GsPrefix == <<"g","s",":","/","/">>
HttpsPrefix == <<"h","t","t","p","s",":","/","/","s","t","o","r","a","g","e",".","g","o","o","g","l","e","a","p","i","s",".","c","o","m","/">>
HttpPrefix == <<"h","t","t","p",":","/","/","s","t","o","r","a","g","e",".","g","o","o","g","l","e","a","p","i","s",".","c","o","m","/">>
NotFoundText == <<"N","o","t"," ","F","o","u","n","d">>
NoAccessText == <<"d","o","e","s"," ","n","o","t"," ","h","a","v","e"," ","s","t","o","r","a","g","e",".","o","b","j","e","c","t","s",".","g","e","t"," ","a","c","c","e","s","s">>
InvalidGcsUriText == <<"I","n","v","a","l","i","d"," ","G","C","S"," ","U","R","I"," ","f","o","r","m","a","t",":"," ">>
InvalidPublicUrlText == <<"I","n","v","a","l","i","d"," ","G","C","S"," ","p","u","b","l","i","c"," ","U","R","L"," ","f","o","r","m","a","t",":"," ">>
InvalidBucketText == <<"I","n","v","a","l","i","d"," ","b","u","c","k","e","t"," ","i","n"," ","p","u","b","l","i","c"," ","U","R","L",".">>
UnsupportedText == <<"U","n","s","u","p","p","o","r","t","e","d"," ","P","D","F"," ","U","R","L"," ","f","o","r","m","a","t"," ","f","o","r"," ","d","o","w","n","l","o","a","d",":"," ">>
CannotDownloadText == <<"C","a","n","n","o","t"," ","d","o","w","n","l","o","a","d"," ","f","r","o","m"," ","b","u","c","k","e","t"," ">>
ExpectedText == <<","," ","e","x","p","e","c","t","e","d"," ">>

\* U+2028 LINE SEPARATOR, one character. The line terminators of ECMAScript
\* are the characters the regular expression atom `.` does not match.
LS == "u2028"
LineTerminators == {"\n", "\r", LS, "u2029"}

\* String.prototype.startsWith
startsWith(s, p) == Len(s) >= Len(p) /\ SubSeq(s, 1, Len(p)) = p

\* String.prototype.includes, for a non-empty p
includes(s, p) ==
    \E i \in 1..(Len(s) - Len(p) + 1) : SubSeq(s, i, i + Len(p) - 1) = p

---------------------------------------------------------------------------
(* Bounds and the inputs drawn from them *)

\* The longest tail of an input location or path, counted in chunks.
MaxChunks == 3

Chunks == {<<"a">>, <<"/">>, <<LS>>, NotFoundText}

RECURSIVE Tails(_)
Tails(n) ==
    IF n = 0 THEN {<<>>}
    ELSE LET T == Tails(n - 1) IN T \cup {t \o c : t \in T, c \in Chunks}

\* The values GCP_BUCKET_NAME is given: any non-empty string (line 34).
BucketNames == {<<"a">>, <<"b">>, <<"a","/","b">>}

Prefixes == {GsPrefix, HttpsPrefix, HttpPrefix, <<"g","s",":","/">>, <<>>}

Locations == {p \o t : p \in Prefixes, t \in Tails(MaxChunks)}

Paths == Tails(MaxChunks) \ {<<>>}

---------------------------------------------------------------------------
(* downloadPdfFromGcs *)

NoMatch == [ok |-> FALSE, bucket |-> <<>>, path |-> <<>>]

\* s.match(/^<prefix>([^\/]+)\/(.+)$/): the first group is the longest run of
\* characters other than '/', which a '/' must follow; the second is the rest
\* of the string, not empty and, `.` matching no line terminator and `$` only
\* the end of the input, without a line terminator.
regexMatch(s, prefix) ==
    IF ~startsWith(s, prefix) THEN NoMatch
    ELSE LET rest == SubSeq(s, Len(prefix) + 1, Len(s))
             slashes == {i \in 1..Len(rest) : rest[i] = "/"}
         IN  IF slashes = {} THEN NoMatch
             ELSE LET k == CHOOSE i \in slashes : \A j \in slashes : i <= j
                  IN  IF \/ k = 1
                         \/ k = Len(rest)
                         \/ \E j \in (k + 1)..Len(rest) : rest[j] \in LineTerminators
                      THEN NoMatch
                      ELSE [ok |-> TRUE,
                            bucket |-> SubSeq(rest, 1, k - 1),
                            path |-> SubSeq(rest, k + 1, Len(rest))]

\* An Error object: code 0 stands for `undefined`.
NoError == [code |-> -1, message |-> <<>>]
Error(message) == [code |-> 0, message |-> message]

\* What storage.bucket(b).file(p).download() can do.
BackendOutcomes ==
    { NoError,
      [code |-> 404, message |-> <<"x">>],
      [code |-> 403, message |-> <<"x">>],
      [code |-> 500, message |-> <<"x">>],
      [code |-> 0, message |-> NotFoundText],
      [code |-> 0, message |-> NoAccessText] }

\* line 651: bucketName !== BUCKET_NAME, on the public URL branch
publicUrlBucketOk(bucketName) == bucketName = BUCKET_NAME

\* A faulty variant of the check of line 660: the bucket is not compared.
bucketCheckSkipped(bucketName) == TRUE
\* line 660: bucketName !== BUCKET_NAME, for both schemes
bucketIsConfigured(bucketName) == bucketName = BUCKET_NAME

\* lines 659-667: the bucket check and the storage call
checkAndDownload(m, backend) ==
    IF ~bucketIsConfigured(m.bucket)
    THEN [parsed |-> m, calls |-> <<>>,
          thrown |-> Error(CannotDownloadText \o m.bucket \o ExpectedText
                           \o BUCKET_NAME \o <<".">>)]
    ELSE [parsed |-> m,
          calls |-> <<[bucket |-> m.bucket, path |-> m.path]>>,
          thrown |-> backend]

\* lines 637-667: the body of the try
tryDownload(gcsPathOrUrl, backend) ==
    IF startsWith(gcsPathOrUrl, GsPrefix)
    THEN LET m == regexMatch(gcsPathOrUrl, GsPrefix)
         IN  IF ~m.ok
             THEN [parsed |-> NoMatch, calls |-> <<>>,
                   thrown |-> Error(InvalidGcsUriText \o gcsPathOrUrl)]
             ELSE checkAndDownload(m, backend)
    ELSE IF startsWith(gcsPathOrUrl, HttpsPrefix)
    THEN LET m == regexMatch(gcsPathOrUrl, HttpsPrefix)
         IN  IF ~m.ok
             THEN [parsed |-> NoMatch, calls |-> <<>>,
                   thrown |-> Error(InvalidPublicUrlText \o gcsPathOrUrl)]
             ELSE IF ~publicUrlBucketOk(m.bucket)
             THEN [parsed |-> m, calls |-> <<>>,
                   thrown |-> Error(InvalidBucketText)]
             ELSE checkAndDownload(m, backend)
    ELSE [parsed |-> NoMatch, calls |-> <<>>,
          thrown |-> Error(UnsupportedText \o gcsPathOrUrl)]

\* lines 668-677: the catch, which throws one of three errors
catchDownload(error) ==
    IF error.code = 404 \/ includes(error.message, NotFoundText)
    THEN "PdfNotFound"
    ELSE IF error.code = 403 \/ includes(error.message, NoAccessText)
    THEN "PermissionDenied"
    ELSE "FailedToDownload"

\* The call as a whole: `outcome` is "contents" when the buffer is returned,
\* and otherwise names the error thrown to the caller.
downloadPdfFromGcs(gcsPathOrUrl, backend) ==
    LET t == tryDownload(gcsPathOrUrl, backend)
    IN  [status |-> "called",
         loc |-> gcsPathOrUrl,
         parsed |-> t.parsed,
         calls |-> t.calls,
         thrown |-> t.thrown,
         outcome |-> IF t.thrown = NoError THEN "contents"
                     ELSE catchDownload(t.thrown)]

NotCalled ==
    [status |-> "none", loc |-> <<>>, parsed |-> NoMatch, calls |-> <<>>,
     thrown |-> NoError, outcome |-> "none"]

---------------------------------------------------------------------------
(* storePdfInBucket *)

\* A faulty variant of line 709: bucket and file name in each other's place.
gcsUriSwapped(destinationFilename) ==
    GsPrefix \o destinationFilename \o <<"/">> \o BUCKET_NAME
\* line 709
gcsUri(destinationFilename) ==
    GsPrefix \o BUCKET_NAME \o <<"/">> \o destinationFilename

\* line 704
publicUrl(destinationFilename) ==
    HttpsPrefix \o BUCKET_NAME \o <<"/">> \o destinationFilename

\* lines 687-717. saveOk and publicOk say whether file.save and
\* file.makePublic succeed; `saved` is whether the blob was written.
storePdfInBucket(destinationFilename, saveOk, publicOk) ==
    IF ~saveOk
    THEN [status |-> "threw", path |-> destinationFilename, saved |-> FALSE,
          url |-> <<>>]
    ELSE IF MAKE_PUBLIC
    THEN IF ~publicOk
         THEN [status |-> "threw", path |-> destinationFilename,
               saved |-> TRUE, url |-> <<>>]
         ELSE [status |-> "ok", path |-> destinationFilename, saved |-> TRUE,
               url |-> publicUrl(destinationFilename)]
    ELSE [status |-> "ok", path |-> destinationFilename, saved |-> TRUE,
          url |-> gcsUri(destinationFilename)]

NotStored == [status |-> "none", path |-> <<>>, saved |-> FALSE, url |-> <<>>]

---------------------------------------------------------------------------
(* JavaScript values of a request body *)

\* The value `undefined`: an absent property.
Undefined == "undefined"

\* Boolean(v) for a string or undefined
truthy(v) == v \notin {Undefined, ""}

Blocks == {"contract", "withdrawal"}

\* A drawn signature: absent, a PNG data URI, or a data URI whose bytes
\* pdfDoc.embedPng rejects.
ValidPng == "data:image/png;base64,iVBORw0KGgo="
BadPng == "data:image/png;base64,AAAA"
Images == {Undefined, ValidPng, BadPng}

\* A keyboard signature {text, font}; an absent one has no text.
NoKeyboard == [text |-> Undefined, font |-> Undefined]
KeyboardSignatures ==
    { NoKeyboard,
      [text |-> "", font |-> "DancingScript-Regular"],
      [text |-> "Jane D.", font |-> "DancingScript-Regular"],
      [text |-> "Jane D.", font |-> "BarlowSemiCondensed-Regular"] }

\* new Date().toLocaleDateString('de-DE')
Today == "03.11.2026"

\* Document ids: a missing pdfId, three ids of the store file, an unknown id.
NoId == <<>>
Doc1 == <<"d","1">>
Doc2 == <<"d","2">>
Doc3 == <<"d","3">>
Doc9 == <<"d","9">>
PdfIds == {NoId, Doc1, Doc2, Doc3, Doc9}

\* How many of fullName, email, location a drawn request leaves out.
MaxMissing == 1

Texts == {Undefined, "", "Jane"}

RequiredInputs ==
    { r \in [{"fullName", "email", "location"} -> Texts] :
        Cardinality({k \in DOMAIN r : ~truthy(r[k])}) <= MaxMissing }

\* req.body of POST /api/sign (lines 446-456)
SignBodies ==
    { [fullName |-> r.fullName, email |-> r.email, location |-> r.location,
       signature |-> sig, withdrawalAccepted |-> wa,
       withdrawalSignature |-> wsig, pdfId |-> id,
       contractKeyboardSignature |-> ck,
       withdrawalKeyboardSignature |-> wk, date |-> Undefined] :
        r \in RequiredInputs, sig \in Images, wa \in BOOLEAN, wsig \in Images,
        id \in PdfIds, ck \in KeyboardSignatures, wk \in KeyboardSignatures }

\* req.body of POST /api/pdf-config (lines 336-344)
ConfigBodies ==
    { [fullName |-> r.fullName, email |-> r.email, location |-> r.location,
       signature |-> sig, withdrawalAccepted |-> wa,
       withdrawalSignature |-> wsig, pdfId |-> NoId,
       contractKeyboardSignature |-> NoKeyboard,
       withdrawalKeyboardSignature |-> NoKeyboard, date |-> d] :
        r \in RequiredInputs, sig \in Images, wa \in BOOLEAN, wsig \in Images,
        d \in {Undefined, "01.02.2025"} }

NoBody ==
    [fullName |-> Undefined, email |-> Undefined, location |-> Undefined,
     signature |-> Undefined, withdrawalAccepted |-> FALSE,
     withdrawalSignature |-> Undefined, pdfId |-> NoId,
     contractKeyboardSignature |-> NoKeyboard,
     withdrawalKeyboardSignature |-> NoKeyboard, date |-> Undefined]

---------------------------------------------------------------------------
(* addSignatureToPage *)

\* line 80
spacing == 25

\* A faulty variant of line 95: email and location in each other's place.
fieldOrderSwapped == <<"fullName", "location", "email", "date">>
\* line 95
fieldOrder == <<"fullName", "email", "location", "date">>

\* pdfConfig.labels[fieldName].text and signatureConfig.label.text: the
\* texts are those of pdfConfig.mjs, named here by their place in it.
labels ==
    [fullName |-> "pdfConfig.labels.fullName.text",
     email |-> "pdfConfig.labels.email.text",
     location |-> "pdfConfig.labels.location.text",
     date |-> "pdfConfig.labels.date.text"]

signatureConfigLabel ==
    [contract |-> "pdfConfig.contractSignature.label.text",
     withdrawal |-> "pdfConfig.withdrawalSignature.label.text"]

\* page.drawText(text, {x, y, size, ...}); y is counted from
\* signatureConfig.textBlockY.
drawText(text, x, y, size) ==
    [op |-> "drawText", text |-> text, x |-> x, y |-> y, size |-> size]

\* page.drawImage(image, {x, y, width, height}) in the rectangle of
\* signatureConfig.
drawImage(image) ==
    [op |-> "drawImage", text |-> image, x |-> 0, y |-> 0, size |-> 0]

\* lines 96-118: the forEach over fieldOrder
RECURSIVE drawFields(_, _, _)
drawFields(fields, order, currentY) ==
    IF order = <<>> THEN <<>>
    ELSE <<drawText(labels[Head(order)], 150, currentY, 12),
           drawText(fields[Head(order)], 250, currentY, 12)>>
         \o drawFields(fields, Tail(order), currentY - spacing)

\* lines 123-125
fontPath(font) ==
    IF font = "DancingScript-Regular"
    THEN "public/fonts/DancingScript-Regular.ttf"
    ELSE "public/fonts/BarlowSemiCondensed-Regular.ttf"

FontFiles ==
    {"public/fonts/DancingScript-Regular.ttf",
     "public/fonts/BarlowSemiCondensed-Regular.ttf"}

\* line 174
SignatureErrorText == "Fehler beim Einfügen der Unterschrift: "

\* lines 78-176. pageExists: the document has the page of the block;
\* readable: the font files fs.readFile can read. The result holds the
\* draw operations made, in order, and the message of the error thrown.
addSignatureToPage(block, signatureData, fields, pageExists, readable) ==
    LET title == <<drawText(signatureConfigLabel[block], 150, 0, 12)>>
        head == title \o drawFields(fields, fieldOrder, 0 - spacing)
        y1 == 0 - spacing * (1 + Len(fieldOrder))
        typed == truthy(fields.keyboardSignature.text)
        typedOps ==
            <<drawText("Unterschrift per Tastatur:", 150, y1, 12),
              drawText(fields.keyboardSignature.text, 150, y1 - spacing, 16)>>
        y2 == IF typed THEN y1 - 2 * spacing ELSE y1
        padLabel == <<drawText("Unterschrift Signaturfeld:", 150, y2, 12)>>
    IN  IF ~pageExists
        THEN [ok |-> FALSE, ops |-> <<>>,
              message |-> SignatureErrorText
                  \o "Cannot read properties of undefined (reading 'drawText')"]
        ELSE IF typed /\ fontPath(fields.keyboardSignature.font) \notin readable
        THEN [ok |-> FALSE, ops |-> head,
              message |-> SignatureErrorText
                  \o "ENOENT: no such file or directory"]
        ELSE LET ops1 == IF typed THEN head \o typedOps ELSE head
             IN  IF ~truthy(signatureData)
                 THEN [ok |-> TRUE, ops |-> ops1, message |-> ""]
                 ELSE IF signatureData # ValidPng
                 THEN [ok |-> FALSE, ops |-> ops1 \o padLabel,
                       message |-> SignatureErrorText
                           \o "The input is not a PNG file!"]
                 ELSE [ok |-> TRUE,
                       ops |-> ops1 \o padLabel \o <<drawImage(signatureData)>>,
                       message |-> ""]

---------------------------------------------------------------------------
(* The document store and loadInitialPdfStore *)

UploadsPrefix == <<"u","p","l","o","a","d","s","/","u","p","l","o","a","d","e","d","_">>
SignedPrefix == <<"s","i","g","n","e","d","/","s","i","g","n","e","d","_">>
ContractsPrefix == <<"c","o","n","t","r","a","c","t","s","/","a","u","s","b","i","l","d","u","n","g","s","v","e","r","t","r","a","g","_">>
PdfSuffix == <<".","p","d","f">>

\* line 303: `/sign/${pdfId}`
signUrl(pdfId) == <<"/","s","i","g","n","/">> \o pdfId

\* line 248: let pdfStore = {}
EmptyStore == [id \in {} |-> [pdfUrl |-> <<>>, signUrl |-> <<>>]]

\* A pdfStore.json left by earlier runs: a record as /api/pdf-upload writes
\* it, a record whose location is in another bucket, a record without pdfUrl.
SampleStore ==
    [id \in {Doc1, Doc2, Doc3} |->
        [pdfUrl |->
            CASE id = Doc1 ->
                   storePdfInBucket(UploadsPrefix \o Doc1 \o PdfSuffix,
                                    TRUE, TRUE).url
              [] id = Doc2 -> GsPrefix \o <<"b">> \o <<"/", "x">>
              [] OTHER -> <<>>,
         signUrl |-> signUrl(id)]]

\* JSON.stringify(pdfStore, null, 2): the text of pdfStore.json, one entry
\* for each id with the properties of its record.
JSONstringify(store) ==
    {<<id, store[id].pdfUrl, store[id].signUrl>> : id \in DOMAIN store}

\* JSON.parse(data): the object a text of pdfStore.json describes
JSONparse(data) ==
    [id \in {e[1] : e \in data} |->
        LET e == CHOOSE x \in data : x[1] = id
        IN  [pdfUrl |-> e[2], signUrl |-> e[3]]]

NoFile == [exists |-> FALSE, data |-> JSONstringify(EmptyStore)]

\* loadInitialPdfStore as the module leaves it: called, awaiting fs.readFile
\* (lines 253 and 625).
NoLoad ==
    [pc |-> "read", data |-> JSONstringify(EmptyStore), error |-> "none"]

\* line 253: how `await fs.readFile(PDF_STORE_PATH, 'utf8')` settles on the
\* file as it is at that moment. readOk: an existing file can be read.
readFile(file, readOk) ==
    IF ~file.exists
    THEN [data |-> JSONstringify(EmptyStore), error |-> "ENOENT"]
    ELSE IF ~readOk
    THEN [data |-> JSONstringify(EmptyStore), error |-> "EIO"]
    ELSE [data |-> file.data, error |-> "none"]

---------------------------------------------------------------------------
(* Values of POST /api/pdf-upload *)

\* How many /api/pdf-upload requests are in flight together.
MaxUploads == 2

Uploads == 1..MaxUploads

Digits == <<"1", "2", "3", "4", "5", "6", "7", "8", "9">>

\* line 296: uuidv4() gives each request an id no other request or record has
uuidv4(u) == <<"u", Digits[u]>>

UploadIds == {uuidv4(u) : u \in Uploads}

\* process.env.API_KEY
API_KEY == "key"

\* req.body.base64: absent, a data URI, a string dataUriToBuffer rejects
PdfDataUri == "data:application/pdf;base64,JVBERi0="
Base64Values == {Undefined, PdfDataUri, "JVBERi0="}

\* req.body.webhookUrl: absent, a string new URL() rejects, a URL
HookUrl == "https://example.org/hook?vorname=Jane&card_id=7"
WebhookUrls == {Undefined, "hook", HookUrl}

\* The x-api-key header, req.file, req.body of POST /api/pdf-upload
UploadRequests ==
    [apiKey : {Undefined, API_KEY, "other"}, file : BOOLEAN,
     base64 : Base64Values, webhookUrl : WebhookUrls]

\* lines 51-57: next() is called
apiKeyAuth(r) == truthy(r.apiKey) /\ r.apiKey = API_KEY

\* line 291: dataUriToBuffer(base64) returns a buffer
isDataUri(base64) == base64 = PdfDataUri

\* line 309: new URL(webhookUrlField) returns a URL
isUrl(webhookUrlField) == webhookUrlField = HookUrl

\* line 298: `uploads/uploaded_${pdfId}.pdf`
destinationFilename(pdfId) == UploadsPrefix \o pdfId \o PdfSuffix

NoUploadResponse ==
    [status |-> 0, error |-> "", pdfUrl |-> <<>>, signUrl |-> <<>>]

\* res.status(status).json({ error }) and res.status(400).send(text)
uploadError(status, error) ==
    [status |-> status, error |-> error, pdfUrl |-> <<>>, signUrl |-> <<>>]

\* line 326: res.json({ pdfUrl, signUrl })
jsonUploaded(url, sign) ==
    [status |-> 200, error |-> "", pdfUrl |-> url, signUrl |-> sign]

\* A request that has not arrived. Across its awaits the handler keeps
\* pdfId, req.body.webhookUrl, pdfUrl, and the text savePdfStore handed to
\* fs.writeFile with the settlement of that write.
NoUpload ==
    [pc |-> "idle", pdfId |-> NoId, webhookUrl |-> Undefined,
     pdfUrl |-> <<>>, snapshot |-> JSONstringify(EmptyStore), saved |-> "none",
     resp |-> NoUploadResponse]

NoUploads == [u \in Uploads |-> NoUpload]

\* lines 283-301: up to the await of storePdfInBucket
uploadStart(r, u) ==
    IF ~apiKeyAuth(r)
    THEN [NoUpload EXCEPT !.pc = "done",
                          !.resp = uploadError(401, "Unauthorized")]
    ELSE IF r.file
    THEN [NoUpload EXCEPT !.pc = "store", !.pdfId = uuidv4(u),
                          !.webhookUrl = r.webhookUrl]
    ELSE IF ~truthy(r.base64)
    THEN [NoUpload EXCEPT !.pc = "done",
              !.resp = uploadError(400, "No PDF file or base64 data provided")]
    ELSE IF ~isDataUri(r.base64)
    THEN [NoUpload EXCEPT !.pc = "done",
              !.resp = uploadError(500, "URI scheme must be data")]
    ELSE [NoUpload EXCEPT !.pc = "store", !.pdfId = uuidv4(u),
                          !.webhookUrl = r.webhookUrl]

\* line 315: pdfStore[pdfId] = { pdfUrl, signUrl, ... }
putRecord(store, pdfId, url) ==
    [id \in DOMAIN store \cup {pdfId} |->
        IF id = pdfId THEN [pdfUrl |-> url, signUrl |-> signUrl(pdfId)]
        ELSE store[id]]

---------------------------------------------------------------------------
(* Responses and effects of the request in flight *)

NoResponse == [status |-> 0, error |-> "", message |-> "", pdfUrl |-> <<>>]

\* res.status(status).json({ error })
jsonError(status, error) ==
    [status |-> status, error |-> error, message |-> "", pdfUrl |-> <<>>]

\* res.json({ pdfUrl })
jsonPdfUrl(url) ==
    [status |-> 200, error |-> "", message |-> "", pdfUrl |-> url]

\* line 464: res.json({ success: true, message, data })
jsonReceived ==
    [status |-> 200, error |-> "",
     message |-> "Signature data received successfully", pdfUrl |-> <<>>]

\* The calls a request has made: pdfStore lookups, storage downloads,
\* document loads, storage uploads (file.save), webhook fetches.
NoEffects ==
    [lookups |-> 0, downloads |-> 0, loads |-> 0, uploads |-> 0,
     webhooks |-> 0]

NothingDrawn == [b \in Blocks |-> <<>>]
NothingComposed == [b \in Blocks |-> "none"]

NoRequest ==
    [kind |-> "none", pc |-> "idle", body |-> NoBody, pdfUrl |-> <<>>,
     signedPdfUrl |-> <<>>]

FieldsErrorText == "Alle Felder müssen ausgefüllt werden."
WithdrawalMissingText ==
    "Unterschrift für das Erlöschen des Widerrufsrechts fehlt."
ContractErrorText == "Fehler beim Einfügen der Vertragsunterschrift: "
WithdrawalErrorText == "Fehler beim Einfügen der Widerrufsunterschrift: "
UploadErrorText == "Failed to upload PDF to bucket"

\* lines 672-676: the message of the error downloadPdfFromGcs throws
downloadErrorMessage(outcome) ==
    CASE outcome = "PdfNotFound" -> "PDF not found at GCS location"
      [] outcome = "PermissionDenied" ->
             "Permission denied to download PDF from GCS"
      [] OTHER -> "Failed to download PDF from GCS"

---------------------------------------------------------------------------
(* POST /api/sign *)

\* A faulty variant of line 458: email is not tested.
signFieldsMissingNoEmail(body) ==
    ~truthy(body.fullName) \/ ~truthy(body.location)
\* line 458
signFieldsMissing(body) ==
    ~truthy(body.fullName) \/ ~truthy(body.location) \/ ~truthy(body.email)

\* lines 497-502 and 506-509
contractFields(body) ==
    [fullName |-> body.fullName, email |-> body.email,
     location |-> body.location, date |-> Today,
     keyboardSignature |->
         IF truthy(body.contractKeyboardSignature.text)
         THEN body.contractKeyboardSignature ELSE NoKeyboard]

\* A faulty variant of line 514: the drawn signature is always passed on.
contractSignatureDataAlways(body) == body.signature
\* line 514: contractKeyboardSignature?.text ? null : signature
contractSignatureData(body) ==
    IF truthy(body.contractKeyboardSignature.text) THEN Undefined
    ELSE body.signature

\* lines 527-530
withdrawalFields(body) ==
    [fullName |-> body.fullName, email |-> body.email,
     location |-> body.location, date |-> Today,
     keyboardSignature |->
         IF truthy(body.withdrawalKeyboardSignature.text)
         THEN body.withdrawalKeyboardSignature ELSE NoKeyboard]

\* line 536: withdrawalKeyboardSignature?.text ? null : withdrawalSignature
withdrawalSignatureData(body) ==
    IF truthy(body.withdrawalKeyboardSignature.text) THEN Undefined
    ELSE body.withdrawalSignature

\* lines 458-490: up to the storage call of downloadPdfFromGcs
signStart(body) ==
    IF signFieldsMissing(body)
    THEN [pc |-> "done", resp |-> jsonError(400, FieldsErrorText),
          fx |-> NoEffects, pdfUrl |-> <<>>]
    ELSE IF body.pdfId = NoId
    THEN [pc |-> "done", resp |-> jsonReceived, fx |-> NoEffects,
          pdfUrl |-> <<>>]
    ELSE IF body.pdfId \notin DOMAIN pdfStore
    THEN [pc |-> "done",
          resp |-> jsonError(404, "PDF nicht gefunden oder ungültige ID."),
          fx |-> [NoEffects EXCEPT !.lookups = 1], pdfUrl |-> <<>>]
    ELSE IF pdfStore[body.pdfId].pdfUrl = <<>>
    THEN [pc |-> "done",
          resp |-> jsonError(500,
              "Interner Serverfehler: PDF-Speicherort nicht gefunden."),
          fx |-> [NoEffects EXCEPT !.lookups = 1], pdfUrl |-> <<>>]
    ELSE LET url == pdfStore[body.pdfId].pdfUrl
             d == downloadPdfFromGcs(url, NoError)
         IN  IF d.calls = <<>>
             THEN [pc |-> "done",
                   resp |-> jsonError(500, downloadErrorMessage(d.outcome)),
                   fx |-> [NoEffects EXCEPT !.lookups = 1], pdfUrl |-> url]
             ELSE [pc |-> "download", resp |-> NoResponse,
                   fx |-> [NoEffects EXCEPT !.lookups = 1, !.downloads = 1],
                   pdfUrl |-> url]

\* A faulty variant of lines 519-523: the catch does not return.
signContractNoReturn(ok, body) ==
    IF body.withdrawalAccepted THEN "withdrawal" ELSE "store"
\* lines 519-526: the return of the catch, and if (withdrawalAccepted)
signAfterContract(ok, body) ==
    IF ~ok THEN "done"
    ELSE IF body.withdrawalAccepted THEN "withdrawal" ELSE "store"

\* lines 541-545
signAfterWithdrawal(ok) == IF ~ok THEN "done" ELSE "store"

---------------------------------------------------------------------------
(* POST /api/pdf-config *)

\* line 346
configFieldsMissing(body) ==
    \/ ~truthy(body.fullName) \/ ~truthy(body.location)
    \/ ~truthy(body.email) \/ ~truthy(body.signature)

\* line 350
configWithdrawalMissing(body) ==
    body.withdrawalAccepted /\ ~truthy(body.withdrawalSignature)

\* lines 362-367
textFields(body) ==
    [fullName |-> body.fullName, email |-> body.email,
     location |-> body.location,
     date |-> IF truthy(body.date) THEN body.date ELSE Today,
     keyboardSignature |-> NoKeyboard]

\* line 370 and line 388: the block the handler composes next
configFirstBlock(body) ==
    IF body.withdrawalAccepted /\ truthy(body.withdrawalSignature)
    THEN "withdrawal"
    ELSE IF truthy(body.signature) THEN "contract" ELSE "store"

\* lines 380-388
configAfterWithdrawal(ok, body) ==
    IF ~ok THEN "done"
    ELSE IF truthy(body.signature) THEN "contract" ELSE "store"

\* lines 398-402
configAfterContract(ok) == IF ~ok THEN "done" ELSE "store"

\* lines 346-360: the checks and the load of the template
configStart(body, templateOk) ==
    IF configFieldsMissing(body)
    THEN [pc |-> "done", resp |-> jsonError(400, FieldsErrorText),
          fx |-> NoEffects]
    ELSE IF configWithdrawalMissing(body)
    THEN [pc |-> "done", resp |-> jsonError(400, WithdrawalMissingText),
          fx |-> NoEffects]
    ELSE IF ~templateOk
    THEN [pc |-> "done",
          resp |-> jsonError(500, "ENOENT: no such file or directory"),
          fx |-> [NoEffects EXCEPT !.loads = 1]]
    ELSE [pc |-> configFirstBlock(body), resp |-> NoResponse,
          fx |-> [NoEffects EXCEPT !.loads = 1]]

---------------------------------------------------------------------------
(* The server: loadInitialPdfStore and one request, its handler cut where  *)
(* it awaits. The two handlers write no state a later request reads, so a  *)
(* behaviour follows one request from its arrival to its end.              *)

configVars == <<BUCKET_NAME, MAKE_PUBLIC>>
codecVars == <<stored, dl>>
storeVars == <<pdfStore, storeFile, loaded, load, up>>
requestVars == <<req, resp, drawn, composed, fx, webhook>>

\* lines 251-271. readOk: fs.readFile and JSON.parse succeed on an existing
\* file; writeOk: the empty file can be created. Under Spec no request
\* writes pdfStore or pdfStore.json, so the load is taken in one step there;
\* SpecStore cuts it at its awaits (LoadRead, LoadResume, LoadCreated).
loadInitialPdfStore(readOk, writeOk) ==
    IF storeFile.exists
    THEN [pdfStore |-> IF readOk THEN JSONparse(storeFile.data) ELSE pdfStore,
          storeFile |-> storeFile]
    ELSE [pdfStore |-> pdfStore,
          storeFile |-> IF writeOk
                        THEN [exists |-> TRUE,
                              data |-> JSONstringify(EmptyStore)]
                        ELSE storeFile]

LoadInitialPdfStore ==
    /\ ~loaded
    /\ loaded' = TRUE
    /\ \E readOk \in BOOLEAN, writeOk \in BOOLEAN :
           LET r == loadInitialPdfStore(readOk, writeOk)
               f == readFile(storeFile, readOk)
           IN  /\ pdfStore' = r.pdfStore
               /\ storeFile' = r.storeFile
               /\ load' = [pc |-> "done", data |-> f.data, error |-> f.error]
    /\ UNCHANGED <<configVars, codecVars, up, req, resp, drawn, composed, fx,
                   webhook>>

\* POST /api/sign, lines 444-490
SignStart ==
    /\ req.pc = "idle"
    /\ \E body \in SignBodies :
           LET r == signStart(body)
           IN  /\ req' = [kind |-> "sign", pc |-> r.pc, body |-> body,
                          pdfUrl |-> r.pdfUrl, signedPdfUrl |-> <<>>]
               /\ resp' = r.resp
               /\ fx' = r.fx
    /\ drawn' = NothingDrawn
    /\ composed' = NothingComposed
    /\ webhook' = "none"
    /\ UNCHANGED <<configVars, codecVars, storeVars>>

\* lines 490-494: the download ends; PDFDocument.load and embedFont
SignDownloaded ==
    /\ req.kind = "sign" /\ req.pc = "download"
    /\ \E backend \in BackendOutcomes, loadOk \in BOOLEAN :
           LET d == downloadPdfFromGcs(req.pdfUrl, backend)
           IN  IF d.outcome # "contents"
               THEN /\ resp' = jsonError(500, downloadErrorMessage(d.outcome))
                    /\ req' = [req EXCEPT !.pc = "done"]
                    /\ fx' = fx
               ELSE /\ fx' = [fx EXCEPT !.loads = @ + 1]
                    /\ IF loadOk
                       THEN req' = [req EXCEPT !.pc = "contract"] /\ resp' = resp
                       ELSE /\ req' = [req EXCEPT !.pc = "done"]
                            /\ resp' = jsonError(500, "Failed to parse PDF document")
    /\ UNCHANGED <<configVars, codecVars, storeVars, drawn, composed, webhook>>

\* lines 504-523: the contract block
SignContract ==
    /\ req.kind = "sign" /\ req.pc = "contract"
    /\ \E pageExists \in BOOLEAN, readable \in SUBSET FontFiles :
           LET r == addSignatureToPage("contract",
                        contractSignatureData(req.body),
                        contractFields(req.body), pageExists, readable)
           IN  /\ drawn' = [drawn EXCEPT !["contract"] = r.ops]
               /\ composed' = [composed EXCEPT !["contract"] =
                                   IF r.ok THEN "ok" ELSE "failed"]
               /\ req' = [req EXCEPT !.pc = signAfterContract(r.ok, req.body)]
               /\ resp' = IF r.ok THEN resp
                          ELSE jsonError(500, ContractErrorText \o r.message)
    /\ UNCHANGED <<configVars, codecVars, storeVars, fx, webhook>>

\* lines 525-546: the withdrawal block
SignWithdrawal ==
    /\ req.kind = "sign" /\ req.pc = "withdrawal"
    /\ \E pageExists \in BOOLEAN, readable \in SUBSET FontFiles :
           LET r == addSignatureToPage("withdrawal",
                        withdrawalSignatureData(req.body),
                        withdrawalFields(req.body), pageExists, readable)
           IN  /\ drawn' = [drawn EXCEPT !["withdrawal"] = r.ops]
               /\ composed' = [composed EXCEPT !["withdrawal"] =
                                   IF r.ok THEN "ok" ELSE "failed"]
               /\ req' = [req EXCEPT !.pc = signAfterWithdrawal(r.ok)]
               /\ resp' = IF r.ok THEN resp
                          ELSE jsonError(500, WithdrawalErrorText \o r.message)
    /\ UNCHANGED <<configVars, codecVars, storeVars, fx, webhook>>

\* lines 548-555: pdfDoc.save and storePdfInBucket
SignStore ==
    /\ req.kind = "sign" /\ req.pc = "store"
    /\ \E saveOk \in BOOLEAN, publicOk \in BOOLEAN :
           LET s == storePdfInBucket(SignedPrefix \o req.body.pdfId \o PdfSuffix,
                                     saveOk, publicOk)
           IN  /\ fx' = [fx EXCEPT !.uploads = @ + 1]
               /\ IF s.status = "ok"
                  THEN /\ req' = [req EXCEPT !.pc = "dispatch",
                                             !.signedPdfUrl = s.url]
                       /\ resp' = resp
                  ELSE /\ req' = [req EXCEPT !.pc = "done"]
                       /\ resp' = jsonError(500, UploadErrorText)
    /\ UNCHANGED <<configVars, codecVars, storeVars, drawn, composed, webhook>>

\* lines 562-564: import('node-fetch'), then fetch(WEBHOOK_URL, ...) is
\* called; when the import fails the catch logs and res.json follows.
SignDispatch ==
    /\ req.kind = "sign" /\ req.pc = "dispatch"
    /\ \E importOk \in BOOLEAN :
           IF importOk
           THEN /\ webhook' = "inflight"
                /\ fx' = [fx EXCEPT !.webhooks = @ + 1]
                /\ req' = [req EXCEPT !.pc = "webhook"]
                /\ resp' = resp
           ELSE /\ webhook' = "failed"
                /\ fx' = fx
                /\ req' = [req EXCEPT !.pc = "done"]
                /\ resp' = jsonPdfUrl(req.signedPdfUrl)
    /\ UNCHANGED <<configVars, codecVars, storeVars, drawn, composed>>

\* lines 564-588: the awaited fetch settles, then res.json({ pdfUrl })
SignWebhookDone ==
    /\ req.kind = "sign" /\ req.pc = "webhook"
    /\ \E outcome \in {"delivered", "failed"} : webhook' = outcome
    /\ resp' = jsonPdfUrl(req.signedPdfUrl)
    /\ req' = [req EXCEPT !.pc = "done"]
    /\ UNCHANGED <<configVars, codecVars, storeVars, drawn, composed, fx>>

\* POST /api/pdf-config, lines 334-367
ConfigStart ==
    /\ req.pc = "idle"
    /\ \E body \in ConfigBodies, templateOk \in BOOLEAN :
           LET r == configStart(body, templateOk)
           IN  /\ req' = [kind |-> "config", pc |-> r.pc, body |-> body,
                          pdfUrl |-> <<>>, signedPdfUrl |-> <<>>]
               /\ resp' = r.resp
               /\ fx' = r.fx
    /\ drawn' = NothingDrawn
    /\ composed' = NothingComposed
    /\ webhook' = "none"
    /\ UNCHANGED <<configVars, codecVars, storeVars>>

\* lines 369-385: the withdrawal block
ConfigWithdrawal ==
    /\ req.kind = "config" /\ req.pc = "withdrawal"
    /\ \E pageExists \in BOOLEAN, readable \in SUBSET FontFiles :
           LET r == addSignatureToPage("withdrawal",
                        req.body.withdrawalSignature, textFields(req.body),
                        pageExists, readable)
           IN  /\ drawn' = [drawn EXCEPT !["withdrawal"] = r.ops]
               /\ composed' = [composed EXCEPT !["withdrawal"] =
                                   IF r.ok THEN "ok" ELSE "failed"]
               /\ req' = [req EXCEPT
                             !.pc = configAfterWithdrawal(r.ok, req.body)]
               /\ resp' = IF r.ok THEN resp
                          ELSE jsonError(500, WithdrawalErrorText \o r.message)
    /\ UNCHANGED <<configVars, codecVars, storeVars, fx, webhook>>

\* lines 387-403: the contract block
ConfigContract ==
    /\ req.kind = "config" /\ req.pc = "contract"
    /\ \E pageExists \in BOOLEAN, readable \in SUBSET FontFiles :
           LET r == addSignatureToPage("contract", req.body.signature,
                        textFields(req.body), pageExists, readable)
           IN  /\ drawn' = [drawn EXCEPT !["contract"] = r.ops]
               /\ composed' = [composed EXCEPT !["contract"] =
                                   IF r.ok THEN "ok" ELSE "failed"]
               /\ req' = [req EXCEPT !.pc = configAfterContract(r.ok)]
               /\ resp' = IF r.ok THEN resp
                          ELSE jsonError(500, ContractErrorText \o r.message)
    /\ UNCHANGED <<configVars, codecVars, storeVars, fx, webhook>>

\* lines 405-412: pdfDoc.save, storePdfInBucket and res.json({ pdfUrl });
\* <<"u">> stands for the uuidv4() of the file name.
ConfigStore ==
    /\ req.kind = "config" /\ req.pc = "store"
    /\ \E saveOk \in BOOLEAN, publicOk \in BOOLEAN :
           LET s == storePdfInBucket(ContractsPrefix \o <<"u">> \o PdfSuffix,
                                     saveOk, publicOk)
           IN  /\ fx' = [fx EXCEPT !.uploads = @ + 1]
               /\ IF s.status = "ok"
                  THEN /\ req' = [req EXCEPT !.pc = "dispatch",
                                             !.signedPdfUrl = s.url]
                       /\ resp' = jsonPdfUrl(s.url)
                  ELSE /\ req' = [req EXCEPT !.pc = "done"]
                       /\ resp' = jsonError(500, UploadErrorText)
    /\ UNCHANGED <<configVars, codecVars, storeVars, drawn, composed, webhook>>

\* lines 415-417: import('node-fetch'), then fetch(WEBHOOK_URL, ...)
ConfigDispatch ==
    /\ req.kind = "config" /\ req.pc = "dispatch"
    /\ \E importOk \in BOOLEAN :
           IF importOk
           THEN /\ webhook' = "inflight"
                /\ fx' = [fx EXCEPT !.webhooks = @ + 1]
                /\ req' = [req EXCEPT !.pc = "webhook"]
           ELSE /\ webhook' = "failed"
                /\ fx' = fx
                /\ req' = [req EXCEPT !.pc = "done"]
    /\ UNCHANGED <<configVars, codecVars, storeVars, drawn, composed, resp>>

\* lines 417-434: the fetch settles; a failure is logged
ConfigWebhookDone ==
    /\ req.kind = "config" /\ req.pc = "webhook"
    /\ \E outcome \in {"delivered", "failed"} : webhook' = outcome
    /\ req' = [req EXCEPT !.pc = "done"]
    /\ UNCHANGED <<configVars, codecVars, storeVars, drawn, composed, fx,
                   resp>>

\* The configured bucket of the server runs.
ServerBucket == <<"a">>

Init ==
    /\ BUCKET_NAME = ServerBucket
    /\ MAKE_PUBLIC \in BOOLEAN
    /\ stored = NotStored
    /\ dl = NotCalled
    /\ pdfStore = EmptyStore
    /\ storeFile \in {NoFile, [exists |-> TRUE,
                                data |-> JSONstringify(SampleStore)]}
    /\ loaded = FALSE
    /\ load = NoLoad
    /\ up = NoUploads
    /\ req = NoRequest
    /\ resp = NoResponse
    /\ drawn = NothingDrawn
    /\ composed = NothingComposed
    /\ fx = NoEffects
    /\ webhook = "none"

Next ==
    \/ LoadInitialPdfStore
    \/ SignStart
    \/ SignDownloaded
    \/ SignContract
    \/ SignWithdrawal
    \/ SignStore
    \/ SignDispatch
    \/ SignWebhookDone
    \/ ConfigStart
    \/ ConfigWithdrawal
    \/ ConfigContract
    \/ ConfigStore
    \/ ConfigDispatch
    \/ ConfigWebhookDone

Spec == Init /\ [][Next]_vars

---------------------------------------------------------------------------
(* The codec on its own: one call of downloadPdfFromGcs on any location,  *)
(* or one call of storePdfInBucket on any path followed by the download of *)
(* the location it returned.                                               *)

InitCodec ==
    /\ BUCKET_NAME \in BucketNames
    /\ MAKE_PUBLIC \in BOOLEAN
    /\ stored = NotStored
    /\ dl = NotCalled
    /\ pdfStore = EmptyStore
    /\ storeFile = NoFile
    /\ loaded = FALSE
    /\ load = NoLoad
    /\ up = NoUploads
    /\ req = NoRequest
    /\ resp = NoResponse
    /\ drawn = NothingDrawn
    /\ composed = NothingComposed
    /\ fx = NoEffects
    /\ webhook = "none"

\* downloadPdfFromGcs(loc) for any location string
DownloadLocation ==
    /\ dl = NotCalled /\ stored = NotStored
    /\ \E loc \in Locations, backend \in BackendOutcomes :
        /\ dl' = downloadPdfFromGcs(loc, backend)
        /\ stored' = NotStored
        /\ UNCHANGED <<configVars, storeVars, requestVars>>

\* storePdfInBucket(bytes, path) for any path
StorePdf ==
    /\ dl = NotCalled /\ stored = NotStored
    /\ \E path \in Paths, saveOk \in BOOLEAN, publicOk \in BOOLEAN :
        /\ stored' = storePdfInBucket(path, saveOk, publicOk)
        /\ dl' = NotCalled
        /\ UNCHANGED <<configVars, storeVars, requestVars>>

\* downloadPdfFromGcs of the location the last storePdfInBucket returned
DownloadStored ==
    /\ stored.status = "ok" /\ dl = NotCalled
    /\ \E backend \in BackendOutcomes :
           dl' = downloadPdfFromGcs(stored.url, backend)
    /\ UNCHANGED <<configVars, storeVars, requestVars, stored>>

NextCodec == DownloadLocation \/ StorePdf \/ DownloadStored

SpecCodec == InitCodec /\ [][NextCodec]_vars


---------------------------------------------------------------------------
(* The document store under load: loadInitialPdfStore cut at its awaits,   *)
(* MaxUploads requests to /api/pdf-upload cut at theirs, and one request   *)
(* to /api/sign for an id an upload hands out. Node runs one piece of one  *)
(* handler at a time and the awaited calls settle in any order.            *)

\* line 253: fs.readFile settles
LoadRead ==
    /\ load.pc = "read"
    /\ \E readOk \in BOOLEAN :
           LET f == readFile(storeFile, readOk)
           IN  load' = [pc |-> "resume", data |-> f.data, error |-> f.error]
    /\ UNCHANGED <<configVars, codecVars, pdfStore, storeFile, loaded, up,
                   requestVars>>

\* lines 254-268: the function resumes after the read: it replaces pdfStore
\* by the parsed text, or calls fs.writeFile to create the file (ENOENT), or
\* logs the error.
LoadResume ==
    /\ load.pc = "resume"
    /\ pdfStore' = IF load.error = "none" THEN JSONparse(load.data)
                   ELSE pdfStore
    /\ load' = [load EXCEPT !.pc = IF load.error = "ENOENT" THEN "create"
                                   ELSE "done"]
    /\ loaded' = (load.error # "ENOENT")
    /\ UNCHANGED <<configVars, codecVars, storeFile, up, requestVars>>

\* lines 261-264: the fs.writeFile of JSON.stringify({}) settles
LoadCreated ==
    /\ load.pc = "create"
    /\ \E writeOk \in BOOLEAN :
           storeFile' = IF writeOk
                        THEN [exists |-> TRUE,
                              data |-> JSONstringify(EmptyStore)]
                        ELSE storeFile
    /\ load' = [load EXCEPT !.pc = "done"]
    /\ loaded' = TRUE
    /\ UNCHANGED <<configVars, codecVars, pdfStore, up, requestVars>>

\* lines 283-301: a request arrives and runs up to storePdfInBucket
UploadStart(u) ==
    /\ up[u].pc = "idle"
    /\ \E r \in UploadRequests : up' = [up EXCEPT ![u] = uploadStart(r, u)]
    /\ UNCHANGED <<configVars, codecVars, pdfStore, storeFile, loaded, load,
                   requestVars>>

\* lines 301-324: storePdfInBucket settles; the handler parses webhookUrl,
\* puts the record into pdfStore and calls savePdfStore, which takes
\* JSON.stringify(pdfStore) and awaits fs.writeFile (line 277).
UploadStored(u) ==
    /\ up[u].pc = "store"
    /\ \E saveOk \in BOOLEAN, publicOk \in BOOLEAN :
           LET s == storePdfInBucket(destinationFilename(up[u].pdfId),
                                     saveOk, publicOk)
           IN  IF s.status # "ok"
               THEN /\ up' = [up EXCEPT ![u].pc = "done",
                                 ![u].resp = uploadError(500, UploadErrorText)]
                    /\ pdfStore' = pdfStore
               ELSE IF ~isUrl(up[u].webhookUrl)
               THEN /\ up' = [up EXCEPT ![u].pc = "done",
                                 ![u].pdfUrl = s.url,
                                 ![u].resp = uploadError(500, "Invalid URL")]
                    /\ pdfStore' = pdfStore
               ELSE /\ pdfStore' = putRecord(pdfStore, up[u].pdfId, s.url)
                    /\ up' = [up EXCEPT ![u].pc = "save",
                                 ![u].pdfUrl = s.url,
                                 ![u].snapshot = JSONstringify(pdfStore'),
                                 ![u].saved = "pending"]
    /\ UNCHANGED <<configVars, codecVars, storeFile, loaded, load,
                   requestVars>>

\* lines 277-281 and 326: the fs.writeFile of savePdfStore settles; a
\* rejection is logged by the catch of savePdfStore; res.json follows.
UploadSaved(u) ==
    /\ up[u].pc = "save"
    /\ \E writeOk \in BOOLEAN :
           /\ storeFile' = IF writeOk
                           THEN [exists |-> TRUE, data |-> up[u].snapshot]
                           ELSE storeFile
           /\ up' = [up EXCEPT
                  ![u].pc = "done",
                  ![u].saved = IF writeOk THEN "written" ELSE "failed",
                  ![u].resp = jsonUploaded(up[u].pdfUrl,
                                           signUrl(up[u].pdfId))]
    /\ UNCHANGED <<configVars, codecVars, pdfStore, loaded, load,
                   requestVars>>

\* req.body of a POST /api/sign for a document an upload hands out
StoredSignBodies ==
    { [NoBody EXCEPT !.fullName = "Jane", !.email = "Jane",
                     !.location = "Jane", !.signature = ValidPng,
                     !.withdrawalAccepted = wa,
                     !.withdrawalSignature = ValidPng, !.pdfId = id] :
        wa \in BOOLEAN, id \in UploadIds }

\* POST /api/sign, lines 444-490, for one of these bodies
SignStored ==
    /\ req.pc = "idle"
    /\ \E body \in StoredSignBodies :
           LET r == signStart(body)
           IN  /\ req' = [kind |-> "sign", pc |-> r.pc, body |-> body,
                          pdfUrl |-> r.pdfUrl, signedPdfUrl |-> <<>>]
               /\ resp' = r.resp
               /\ fx' = r.fx
    /\ drawn' = NothingDrawn
    /\ composed' = NothingComposed
    /\ webhook' = "none"
    /\ UNCHANGED <<configVars, codecVars, storeVars>>

InitStore ==
    /\ BUCKET_NAME = ServerBucket
    /\ MAKE_PUBLIC \in BOOLEAN
    /\ stored = NotStored
    /\ dl = NotCalled
    /\ pdfStore = EmptyStore
    /\ storeFile \in {NoFile, [exists |-> TRUE,
                                data |-> JSONstringify(SampleStore)]}
    /\ loaded = FALSE
    /\ load = NoLoad
    /\ up = NoUploads
    /\ req = NoRequest
    /\ resp = NoResponse
    /\ drawn = NothingDrawn
    /\ composed = NothingComposed
    /\ fx = NoEffects
    /\ webhook = "none"

NextStore ==
    \/ LoadRead
    \/ LoadResume
    \/ LoadCreated
    \/ \E u \in Uploads : UploadStart(u)
    \/ \E u \in Uploads : UploadStored(u)
    \/ \E u \in Uploads : UploadSaved(u)
    \/ SignStored
    \/ SignDownloaded
    \/ SignContract
    \/ SignWithdrawal
    \/ SignStore
    \/ SignDispatch
    \/ SignWebhookDone

SpecStore == InitStore /\ [][NextStore]_vars

---------------------------------------------------------------------------
(* Properties of the codec, checked under SpecCodec *)

hasNoSlash(s) == \A i \in 1..Len(s) : s[i] # "/"
hasNoLineTerminator(s) == \A i \in 1..Len(s) : s[i] \notin LineTerminators

\* C3: a download whose location parses to a bucket other than BUCKET_NAME
\* ends with an error, and the storage download was not called for it.
C3_UntrustedBucketRejected ==
    (dl.status = "called" /\ dl.parsed.ok /\ dl.parsed.bucket # BUCKET_NAME)
        => (dl.outcome # "contents" /\ dl.calls = <<>>)

C3_Witness ==
    /\ dl.status = "called"
    /\ startsWith(dl.loc, GsPrefix)
    /\ dl.parsed.ok
    /\ dl.parsed.bucket # BUCKET_NAME
    /\ dl.outcome = "FailedToDownload"

\* The locations that match neither gs://{bucket}/{path} nor
\* https://storage.googleapis.com/{bucket}/{path}.
matchesNoScheme(loc) ==
    ~regexMatch(loc, GsPrefix).ok /\ ~regexMatch(loc, HttpsPrefix).ok

\* How downloads from a bucket other than the configured one end.
UntrustedBucketOutcomes ==
    { downloadPdfFromGcs(p \o b \o <<"/", "a">>, NoError).outcome :
        p \in {GsPrefix, HttpsPrefix},
        b \in {n \in BucketNames : hasNoSlash(n) /\ n # BUCKET_NAME} }

\* C4: a download of a location that matches neither scheme makes no storage
\* call and ends with an error of its own: not the one of a missing object,
\* not the one of a denied permission, not the one of an untrusted bucket.
C4_InvalidFormatIsItsOwnError ==
    (dl.status = "called" /\ matchesNoScheme(dl.loc))
        => /\ dl.calls = <<>>
           /\ dl.outcome \notin {"contents", "PdfNotFound", "PermissionDenied"}
           /\ dl.outcome \notin UntrustedBucketOutcomes

\* C5 as stated: for a bucket without '/' and any non-empty path, the private
\* location storePdfInBucket returns parses back to that bucket and path.
C5_RoundTripAnyPath ==
    (stored.status = "ok" /\ ~MAKE_PUBLIC /\ dl.status = "called"
        /\ hasNoSlash(BUCKET_NAME) /\ stored.path # <<>>)
        => dl.parsed = [ok |-> TRUE, bucket |-> BUCKET_NAME, path |-> stored.path]

\* C5, amended: for a bucket without '/' and any non-empty path without a
\* line terminator, the private location storePdfInBucket returns parses
\* back to that bucket and path.
C5_RoundTrip ==
    (stored.status = "ok" /\ ~MAKE_PUBLIC /\ dl.status = "called"
        /\ hasNoSlash(BUCKET_NAME) /\ stored.path # <<>>
        /\ hasNoLineTerminator(stored.path))
        => dl.parsed = [ok |-> TRUE, bucket |-> BUCKET_NAME, path |-> stored.path]

C5_Witness ==
    /\ stored.status = "ok" /\ ~MAKE_PUBLIC /\ dl.status = "called"
    /\ hasNoSlash(BUCKET_NAME)
    /\ ~hasNoSlash(stored.path)
    /\ hasNoLineTerminator(stored.path)
    /\ dl.parsed.ok /\ dl.parsed.path = stored.path

---------------------------------------------------------------------------
(* Properties of the request handlers, checked under Spec *)

\* The keyboard signature and the drawn signature a /api/sign body holds
\* for a block.
typedOf(b) ==
    IF b = "contract" THEN req.body.contractKeyboardSignature
    ELSE req.body.withdrawalKeyboardSignature

drawnOf(b) ==
    IF b = "contract" THEN req.body.signature
    ELSE req.body.withdrawalSignature

isPresent(v) == v # "undefined" /\ v # ""

\* C1: in a /api/sign request, a block whose keyboard signature has text and
\* whose drawn signature is supplied too gets no drawn image and no signature
\* pad label; once composed, it holds the typed text.
C1_TypedTakesPrecedence ==
    req.kind = "sign" =>
        \A b \in Blocks :
            (isPresent(typedOf(b).text) /\ isPresent(drawnOf(b))) =>
                /\ \A i \in 1..Len(drawn[b]) :
                       /\ drawn[b][i].op # "drawImage"
                       /\ drawn[b][i].text # "Unterschrift Signaturfeld:"
                /\ composed[b] = "ok" =>
                       \E i \in 1..Len(drawn[b]) :
                           /\ drawn[b][i].op = "drawText"
                           /\ drawn[b][i].text = typedOf(b).text
                           /\ drawn[b][i].size = 16

C1_Witness ==
    /\ req.kind = "sign"
    /\ req.body.contractKeyboardSignature.text = "Jane D."
    /\ req.body.signature = ValidPng
    /\ composed["contract"] = "ok"
    /\ Len(drawn["contract"]) = 11

\* The date a handler draws: /api/sign takes today's, /api/pdf-config the
\* date of the body when it has one.
dateDrawn ==
    IF req.kind = "config" /\ isPresent(req.body.date) THEN req.body.date
    ELSE "03.11.2026"

\* C2: a block composed without error holds, in this order, the title line,
\* the label and the value of fullName, email, location and date, one line
\* each, and then nothing, or a typed signature (label, text), or a drawn
\* signature (label, image).
C2_BlockShape ==
    \A b \in Blocks :
        composed[b] = "ok" =>
            LET ops == drawn[b]
                tail == SubSeq(ops, 10, Len(ops))
            IN  /\ Len(ops) >= 9
                /\ SubSeq(ops, 1, 9) =
                     << drawText(signatureConfigLabel[b], 150, 0, 12),
                        drawText(labels.fullName, 150, -25, 12),
                        drawText(req.body.fullName, 250, -25, 12),
                        drawText(labels.email, 150, -50, 12),
                        drawText(req.body.email, 250, -50, 12),
                        drawText(labels.location, 150, -75, 12),
                        drawText(req.body.location, 250, -75, 12),
                        drawText(labels.date, 150, -100, 12),
                        drawText(dateDrawn, 250, -100, 12) >>
                /\ \/ tail = <<>>
                   \/ /\ Len(tail) = 2
                      /\ tail[1] = drawText("Unterschrift per Tastatur:",
                                            150, -125, 12)
                      /\ tail[2].op = "drawText"
                      /\ tail[2].size = 16 /\ tail[2].y = -150
                   \/ /\ Len(tail) = 2
                      /\ tail[1] = drawText("Unterschrift Signaturfeld:",
                                            150, -125, 12)
                      /\ tail[2].op = "drawImage"

C2_Witness ==
    /\ req.kind = "sign"
    /\ composed["contract"] = "ok" /\ composed["withdrawal"] = "ok"
    /\ Len(drawn["contract"]) = 11 /\ Len(drawn["withdrawal"]) = 11
    /\ drawn["contract"][11].op = "drawImage"
    /\ drawn["withdrawal"][11].op = "drawText"

CompositionMessages ==
    { "Fehler beim Einfügen der Unterschrift: " \o m :
        m \in { "Cannot read properties of undefined (reading 'drawText')",
                "ENOENT: no such file or directory",
                "The input is not a PNG file!" } }

blockErrorText(b) ==
    IF b = "contract" THEN "Fehler beim Einfügen der Vertragsunterschrift: "
    ELSE "Fehler beim Einfügen der Widerrufsunterschrift: "

\* C6: when composing a block fails, the request has ended with a 500
\* response whose error starts with the text of that block, and the request
\* has made no upload and no webhook call.
C6_FailedBlockAborts ==
    \A b \in Blocks :
        composed[b] = "failed" =>
            /\ req.pc = "done"
            /\ resp.status = 500
            /\ resp.error \in {blockErrorText(b) \o m : m \in CompositionMessages}
            /\ fx.uploads = 0
            /\ fx.webhooks = 0
            /\ webhook = "none"

C6_Witness ==
    /\ req.kind = "config"
    /\ req.body.signature = BadPng
    /\ composed["withdrawal"] = "ok"
    /\ composed["contract"] = "failed"
    /\ resp.status = 500

\* C7: a block with a typed signature in the decorative font never fails on
\* the font file: when the file cannot be read the block is still composed.
C7_MissingFontDoesNotFail ==
    \A b \in Blocks :
        (req.kind = "sign" /\ isPresent(typedOf(b).text)
            /\ typedOf(b).font = "DancingScript-Regular"
            /\ composed[b] = "failed")
            => resp.error # blockErrorText(b)
                   \o "Fehler beim Einfügen der Unterschrift: "
                   \o "ENOENT: no such file or directory"

\* C8: a /api/sign request with withdrawalAccepted and neither a drawn nor a
\* keyboard withdrawal signature loads no document, draws nothing, uploads
\* nothing and calls no webhook.
C8_WithdrawalNeedsSignature ==
    (req.kind = "sign" /\ req.body.withdrawalAccepted
        /\ ~isPresent(req.body.withdrawalSignature)
        /\ ~isPresent(req.body.withdrawalKeyboardSignature.text))
        => /\ fx.loads = 0
           /\ drawn = NothingDrawn
           /\ fx.uploads = 0
           /\ fx.webhooks = 0

\* C9: a request whose fullName, email or location is missing or empty has
\* been answered 400 and has made no store lookup, no download, no document
\* load, no drawing, no upload and no webhook call.
C9_MissingFieldRejected ==
    (req.kind \in {"sign", "config"}
        /\ \E k \in {"fullName", "email", "location"} : ~isPresent(req.body[k]))
        => /\ req.pc = "done"
           /\ resp.status = 400
           /\ fx.lookups = 0 /\ fx.downloads = 0 /\ fx.loads = 0
           /\ fx.uploads = 0 /\ fx.webhooks = 0
           /\ drawn = NothingDrawn
           /\ composed = NothingComposed
           /\ webhook = "none"

C9_Witness ==
    /\ req.kind = "sign"
    /\ req.body.email = ""
    /\ req.body.pdfId = Doc1
    /\ Doc1 \in DOMAIN pdfStore
    /\ resp.status = 400

\* C10: while the webhook call is in flight the success response has been
\* sent already; a failed webhook call leaves the success response; the
\* webhook is called at most once.
C10_WebhookNeverBlocks ==
    /\ webhook = "inflight" => resp.status = 200
    /\ (webhook = "failed" /\ req.pc = "done") => resp.status = 200
    /\ fx.webhooks <= 1

---------------------------------------------------------------------------
(* Properties of the document store, checked under SpecStore *)

\* The ids for which a request has put a record into pdfStore (line 315).
createdIds == {up[u].pdfId : u \in {v \in Uploads : up[v].saved # "none"}}

\* Every request to /api/pdf-upload that arrived has been answered.
uploadsCompleted == \A u \in Uploads : up[u].pc \in {"idle", "done"}

\* C11: concurrent uploads are serialized. Once every upload that arrived
\* has completed, with the start-up load finished after reading the file
\* (so that the uploads are the only writers of pdfStore.json), no write
\* rejected and pdfStore holding every record created, pdfStore.json holds a
\* record for every id created and equals pdfStore: no stale full rewrite
\* has finished last.
C11_UploadsSerialized ==
    ( /\ uploadsCompleted
      /\ load.pc = "done" /\ load.error = "none"
      /\ \A u \in Uploads : up[u].saved # "failed"
      /\ createdIds \subseteq DOMAIN pdfStore )
    => /\ createdIds \subseteq DOMAIN JSONparse(storeFile.data)
       /\ JSONparse(storeFile.data) = pdfStore


\* C12: when /api/pdf-upload has created a record and the write of
\* pdfStore.json is rejected, the request is not answered with a success
\* response.
C12_SaveFailureSurfaced ==
    \A u \in Uploads :
        (up[u].pc = "done" /\ up[u].saved = "failed") =>
            up[u].resp.status # 200

\* A location storePdfInBucket hands out for the configured bucket.
inConfiguredBucket(url) ==
    \/ startsWith(url, GsPrefix \o BUCKET_NAME \o <<"/">>)
    \/ startsWith(url, HttpsPrefix \o BUCKET_NAME \o <<"/">>)

\* Request u is answered 200 in this step.
uploadSucceeds(u) ==
    up[u].pc # "done" /\ up'[u].pc = "done" /\ up'[u].resp.status = 200

\* Request u puts its record into pdfStore in this step (line 315).
uploadRecords(u) == up[u].pc = "store" /\ up'[u].pc = "save"

\* C13: when /api/pdf-upload answers 200, pdfStore holds a record for the
\* new id whose pdfUrl is the location returned to the caller, a gs:// or
\* https://storage.googleapis.com/ location in the configured bucket; and
\* the step that puts the record adds this one id and leaves the record of
\* every other id as it was.
C13_UploadRecordsDocument ==
    [][\A u \in Uploads :
          /\ uploadSucceeds(u) =>
                /\ up'[u].pdfId \in DOMAIN pdfStore'
                /\ pdfStore'[up'[u].pdfId].pdfUrl = up'[u].resp.pdfUrl
                /\ inConfiguredBucket(up'[u].resp.pdfUrl)
          /\ uploadRecords(u) =>
                /\ up[u].pdfId \notin DOMAIN pdfStore
                /\ DOMAIN pdfStore' = DOMAIN pdfStore \cup {up[u].pdfId}
                /\ \A id \in DOMAIN pdfStore : pdfStore'[id] = pdfStore[id]
      ]_vars

---------------------------------------------------------------------------
(* A property of /api/sign, checked under Spec *)

\* Block b holds a rendered signature: the drawn image, or the typed text
\* in the signature size.
signatureRendered(b) ==
    \E i \in 1..Len(drawn[b]) :
        \/ drawn[b][i].op = "drawImage"
        \/ /\ drawn[b][i].op = "drawText"
           /\ drawn[b][i].size = 16
           /\ drawn[b][i].text = typedOf(b).text

\* C14: whenever /api/sign has called the upload of the signed document,
\* the contract block of that document holds a rendered signature, typed or
\* drawn; a request with neither a contract keyboard signature text nor a
\* contract signature image never reaches the upload.
C14_NoUnsignedDocumentStored ==
    req.kind = "sign" =>
        /\ fx.uploads > 0 => signatureRendered("contract")
        /\ ( ~isPresent(req.body.contractKeyboardSignature.text)
             /\ ~isPresent(req.body.signature) ) => fx.uploads = 0

---------------------------------------------------------------------------
(* A property of the store and the start-up load, checked under SpecStore *)

\* Request u to /api/pdf-upload has been answered 200.
uploadCompleted(u) == up[u].pc = "done" /\ up[u].resp.status = 200

\* A request to /api/sign for the id of request u arrives in this step.
signArrivesFor(u) ==
    req.pc = "idle" /\ req'.kind = "sign" /\ req'.body.pdfId = up[u].pdfId

\* C15: the record of a completed /api/pdf-upload stays retrievable. In
\* every interleaving with loadInitialPdfStore, a /api/sign that arrives
\* after the upload was answered finds the record (it is not answered 404),
\* and no step removes the record from pdfStore or replaces pdfStore by a
\* map without it.
C15_CompletedUploadRetrievable ==
    [][\A u \in Uploads :
          uploadCompleted(u) =>
              /\ signArrivesFor(u) => resp'.status # 404
              /\ up[u].pdfId \in DOMAIN pdfStore =>
                     up[u].pdfId \in DOMAIN pdfStore'
      ]_vars

=============================================================================
